---- MODULE Spec2Model ----
(***************************************************************************)
(* Model of the Ethereum-Playground-Lab repository:                        *)
(*   - the DID codec and the DID orchestration service                     *)
(*     (back/src/did/did.service.ts) talking to an identity registry,      *)
(*   - the EIP-4337 account factory and wallet account                     *)
(*     (EIP-4437/contracts/SimpleAccountFactory.sol, SimpleAccount.sol).   *)
(*                                                                         *)
(* Text is modelled as a sequence of one-character strings.  Addresses     *)
(* keep their textual form (prefix, case) wherever the code handles them   *)
(* as text, and are reduced to their bytes (lower-case hex digits) where   *)
(* the chain handles them.                                                 *)
(***************************************************************************)
EXTENDS Integers, Sequences, FiniteSets, TLC

VARIABLES
    input,      \* codec: the DID text handed to the address extraction
    outcome,    \* codec: what the extraction produced for input
    owners,     \* registry: the registered owner of each identity
    call,       \* service: the calls in progress, one record per request slot
    fresh,      \* service: the keys Wallet.createRandom has not produced yet
    started,    \* service: number of calls started so far
    life,       \* service: the last successful response about each generated identity
    verifyingSigner, \* paymaster: the address whose signatures it accepts
    now,        \* paymaster: block.timestamp
    verdicts,   \* paymaster: what each validation run so far answered
    deployments,\* deployment script: the records of deployments.json
    artifacts,  \* deployment script: the compiled version of each contract
    deployed,   \* deployment script: the deployment transactions sent, in order
    run,        \* deployment script: the run of main in progress
    accounts,   \* chain: the SimpleAccount proxy at each factory address
    events,     \* chain: the AccountCreated events the factory emitted
    last,       \* chain: the last transaction sent and how it ended
    ops         \* chain: number of transactions sent so far

codecVars == <<input, outcome>>

didVars == <<owners, call, fresh, started, life>>

paymasterVars == <<verifyingSigner, now, verdicts>>

deployVars == <<deployments, artifacts, deployed, run>>

walletVars == <<accounts, events, last, ops>>

vars == <<input, outcome, owners, call, fresh, started, life, accounts, events, last, ops,
          verifyingSigner, now, verdicts, deployments, artifacts, deployed, run>>

----------------------------------------------------------------------------
(* Characters *)

Digits == {"0", "1", "2", "3", "4", "5", "6", "7", "8", "9"}

LowerHexLetters == {"a", "b", "c", "d", "e", "f"}

UpperHexLetters == {"A", "B", "C", "D", "E", "F"}

\* [a-fA-F0-9]
HexChars == Digits \cup LowerHexLetters \cup UpperHexLetters

\* String.prototype.toLowerCase on one character (hex letters are the only
\* upper-case characters the model's alphabets hold)
LowerChar(ch) ==
    CASE ch = "A" -> "a"
      [] ch = "B" -> "b"
      [] ch = "C" -> "c"
      [] ch = "D" -> "d"
      [] ch = "E" -> "e"
      [] ch = "F" -> "f"
      [] OTHER -> ch

UpperChar(ch) ==
    CASE ch = "a" -> "A"
      [] ch = "b" -> "B"
      [] ch = "c" -> "C"
      [] ch = "d" -> "D"
      [] ch = "e" -> "E"
      [] ch = "f" -> "F"
      [] OTHER -> ch

ToLowerCase(s) == [i \in 1..Len(s) |-> LowerChar(s[i])]

----------------------------------------------------------------------------
(* The admin wallet and the address format *)

\* The bytes of adminWallet.address (lower-case hex digits, no prefix)
AdminHex == <<"a", "b">>

\* Number of hex digits of an address.  Addresses of the program have 40; the
\* model's addresses are as long as the admin's.
AddrHexLen == Len(AdminHex)

ZeroHex == [i \in 1..AddrHexLen |-> "0"]

HexPrefix == <<"0", "x">>

\* ethers getChecksumAddress: the case of each hex letter is a fixed function
\* of the address bytes (keccak256 of the lower-case text in the program; in
\* the model the letters at odd positions are upper case).
ToChecksum(hex) ==
    [i \in 1..Len(hex) |-> IF i % 2 = 1 THEN UpperChar(hex[i]) ELSE hex[i]]

\* The text ethers returns for an address value (contract reads,
\* Wallet.address): prefixed and checksummed.
AddressText(hex) == HexPrefix \o ToChecksum(hex)

HasPrefix(s) == Len(s) >= 2 /\ s[1] = "0" /\ s[2] = "x"

\* The hex digits of an address text, as written
HexBody(s) == IF HasPrefix(s) THEN SubSeq(s, 3, Len(s)) ELSE s

\* /([A-F].*[a-f])|([a-f].*[A-F])/
MixedCase(s) ==
    /\ \E i \in 1..Len(s) : s[i] \in UpperHexLetters
    /\ \E i \in 1..Len(s) : s[i] \in LowerHexLetters

\* ethers.utils.isAddress: /^(0x)?[0-9a-fA-F]{40}$/, and a mixed-case text
\* must carry the checksum case.  (The ICAP form starts with an upper-case
\* "X", which the extraction has removed before isAddress is asked.)
IsAddress(s) ==
    LET body == HexBody(s) IN
    /\ Len(body) = AddrHexLen
    /\ \A i \in 1..Len(body) : body[i] \in HexChars
    /\ (MixedCase(body) => body = ToChecksum(ToLowerCase(body)))

\* The bytes an address text denotes
AddrBytes(s) == ToLowerCase(HexBody(s))

----------------------------------------------------------------------------
(* DID codec: did.service.ts 159-168, 219-228, 263-272 *)

DidEthrPrefix == <<"d", "i", "d", ":", "e", "t", "h", "r", ":">>

SepoliaNet == <<"s", "e", "p", "o", "l", "i", "a", ":">>

\* String.prototype.startsWith
StartsWith(s, p) == Len(s) >= Len(p) /\ SubSeq(s, 1, Len(p)) = p

\* Index of the last ":" of s, 0 when there is none
LastColon(s) ==
    LET idx == {i \in 1..Len(s) : s[i] = ":"} IN
    IF idx = {} THEN 0 ELSE CHOOSE i \in idx : \A j \in idx : j <= i

\* did.split(':') followed by parts[parts.length - 1]
LastSegment(s) == SubSeq(s, LastColon(s) + 1, Len(s))

\* the characters /[^a-fA-F0-9x]/g leaves in place
KeptByStrip(ch) == ch \in HexChars \cup {"x"}

\* .replace(/[^a-fA-F0-9x]/g, '')
StripNonHex(s) == SelectSeq(s, KeptByStrip)

\* Faulty variant: keeps the segment as written
IdentityOfSegment_NoStrip(seg) == seg

IdentityOfSegment(seg) == StripNonHex(seg)

\* The extraction block shared by addAttribute, removeAttribute and deleteDid:
\* the identity text, or the error thrown.
ExtractIdentity(did) ==
    IF StartsWith(did, DidEthrPrefix)
    THEN LET identity == IdentityOfSegment(LastSegment(did)) IN
         IF IsAddress(identity)
         THEN [ok |-> TRUE, identity |-> identity, err |-> "none"]
         ELSE [ok |-> FALSE, identity |-> identity, err |-> "invalidAddress"]
    ELSE [ok |-> FALSE, identity |-> <<>>, err |-> "unsupported"]

NoOutcome == [ok |-> FALSE, identity |-> <<>>, err |-> "pending"]

----------------------------------------------------------------------------
(* The identity registry, as the service uses it through registryAbi *)

\* An identity some third party registered for itself
UserHex == <<"c", "1">>

\* The keys Wallet.createRandom can produce
NewKeys == {<<"1", "d">>}

RegIds == {AdminHex, UserHex} \cup NewKeys

\* adminWallet.address
AdminAddress == AddressText(AdminHex)

\* ethers.constants.AddressZero
AddressZero == AddressText(ZeroHex)

\* function identityOwner(address identity): the registered owner, the zero
\* address while none is registered (or after deleteDid)
IdentityOwner(identity) == owners[identity]

\* The registry's owner check on a write: the sender must be the registered
\* owner; an identity with no registered owner answers for itself.
Authorised(sender, identity) ==
    \/ owners[identity] = sender
    \/ owners[identity] = ZeroHex /\ sender = identity

\* A transaction of the service.  hash: the slot and position that identify
\* it.  step: which step of the call submitted it.
Tx(kind, identity, newOwner, signer, step) ==
    [kind |-> kind, identity |-> identity, newOwner |-> newOwner,
     signer |-> signer, step |-> step, status |-> "pending"]

\* Faulty variant: the registry applies whatever is mined
Accepts_Always(tx) == TRUE

\* Whether the registry accepts tx when it is mined
Accepts(tx) == Authorised(tx.signer, tx.identity)

\* The registry after an accepted tx
Applied(tx) ==
    IF tx.kind \in {"changeOwner", "changeOwnerSigned"}
    THEN [owners EXCEPT ![tx.identity] = tx.newOwner]
    ELSE owners

----------------------------------------------------------------------------
(* DidService *)

Calls == {1, 2}

\* Calls the service serves in one run of the model
MaxOps == 2

\* if (attributeName.length > 31)
MaxNameLength == 31

\* formatBytes32String: at most 31 bytes of UTF-8
MaxBytes32String == 31

\* An attribute name: its length in UTF-16 units and in UTF-8 bytes
RevokeNames ==
    { [len |-> 3, bytes |-> 3],
      [len |-> 31, bytes |-> 33] }

Names ==
    { [len |-> 3, bytes |-> 3],
      [len |-> 32, bytes |-> 32],
      [len |-> 31, bytes |-> 33] }

NoName == [len |-> 0, bytes |-> 0]

\* `did:ethr:sepolia:${address}`
DidOf(hex) == DidEthrPrefix \o SepoliaNet \o AddressText(hex)

\* Request bodies: the DID of the admin and of every key, the user's DID in
\* lower case with a stray character, a short address, another DID method
DidInputs ==
    {DidOf(h) : h \in {AdminHex} \cup NewKeys}
    \cup { DidEthrPrefix \o SepoliaNet \o <<"0", "x", "g", "c", "1">>,
           DidEthrPrefix \o SepoliaNet \o <<"0", "x", "c">>,
           <<"d", "i", "d", ":", "w", "e", "b", ":">> \o AddressText(UserHex) }

NoText == <<>>

NoHash == <<0, 0>>

NoResult ==
    [status |-> "none", err |-> "none", hash |-> NoHash, did |-> NoText,
     address |-> NoText, detail |-> <<>>]

IdleCall ==
    [pc |-> "idle", op |-> "none", did |-> NoText, name |-> NoName,
     identity |-> NoText, currentOwner |-> NoText, key |-> ZeroHex,
     txs |-> <<>>, receipt |-> NoHash, result |-> NoResult]

Failure(err, detail) ==
    [status |-> "error", err |-> err, hash |-> NoHash, did |-> NoText,
     address |-> NoText, detail |-> detail]

Success(c, k, did, address) ==
    [status |-> "ok", err |-> "none", hash |-> <<c, k>>, did |-> did,
     address |-> address, detail |-> <<>>]

\* The error left the method through its catch block, which throws a new
\* Error made of the operation's prefix and the cause's message;
\* ensureAdminRegistered is awaited before the try block is entered
Wrapped(result) == result.status = "error" /\ result.err # "bootstrap"

\* Faulty variant: a failed transaction is submitted once more
Throw_Retry(c, rec, err, detail) ==
    IF rec.txs # <<>> /\ rec.txs[Len(rec.txs)].status = "failed" /\ Len(rec.txs) < 3
    THEN call' = [call EXCEPT ![c] =
                    [rec EXCEPT !.txs = Append(@, [@[Len(@)] EXCEPT !.status = "pending"])]]
    ELSE call' = [call EXCEPT ![c] = [rec EXCEPT !.pc = "done",
                                                 !.result = Failure(err, detail)]]

\* the call c, its record now rec, ends by throwing
Throw(c, rec, err, detail) ==
    call' = [call EXCEPT ![c] = [rec EXCEPT !.pc = "done",
                                            !.result = Failure(err, detail)]]

\* the call c hands tx to the provider and waits for it at pc
Submit(c, rec, tx, pc) ==
    call' = [call EXCEPT ![c] = [rec EXCEPT !.pc = pc, !.txs = Append(@, tx)]]

\* the call c returns result
Finish(c, rec, result) ==
    call' = [call EXCEPT ![c] = [rec EXCEPT !.pc = "done", !.result = result]]

\* The transaction the call c waits for
Pending(c) == call[c].txs[Len(call[c].txs)]

\* Faulty variant: the wait returns before the transaction is settled
Settled_StillPending(c, status) == call[c]

\* The record of call c once the transaction it waits for has the status
Settled(c, status) ==
    [call[c] EXCEPT !.txs = [@ EXCEPT ![Len(@)].status = status]]

\* Nothing answered yet about any generated identity
NoLife == [k \in NewKeys |-> "none"]

DidInit ==
    /\ owners \in {f \in [RegIds -> RegIds \cup {ZeroHex}] :
                     /\ f[AdminHex] \in {ZeroHex, AdminHex}
                     /\ f[UserHex] \in {UserHex, AdminHex}
                     /\ \A k \in NewKeys : f[k] = ZeroHex}
    /\ call = [c \in Calls |-> IdleCall]
    /\ fresh = NewKeys
    /\ started = 0
    /\ life = NoLife

\* A request arrives and takes the lowest free slot
CanStart(c) ==
    /\ call[c].pc = "idle"
    /\ \A d \in Calls : d < c => call[d].pc # "idle"
    /\ started < MaxOps

\* The async method is entered: its first statement is the bootstrap check
Admit(c, op, did, name) ==
    /\ call' = [call EXCEPT ![c] = [IdleCall EXCEPT !.pc = "ensure", !.op = op,
                                                   !.did = did, !.name = name]]
    /\ started' = started + 1
    /\ UNCHANGED <<owners, fresh, life, codecVars, walletVars, paymasterVars, deployVars>>

Begin(c, op, did, name) ==
    /\ CanStart(c)
    /\ Admit(c, op, did, name)

\* (the model serves a registration only while a key is left for it)
StartRegisterDid(c) ==
    /\ Cardinality(fresh) >
         Cardinality({d \in Calls : /\ call[d].op = "registerDid"
                                     /\ call[d].pc \in {"ensure", "ensure_wait", "body"}})
    /\ Begin(c, "registerDid", NoText, NoName)

StartAddAttribute(c, did, name) == Begin(c, "addAttribute", did, name)

StartRemoveAttribute(c, did, name) == Begin(c, "removeAttribute", did, name)

StartDeleteDid(c, did) == Begin(c, "deleteDid", did, NoName)

\* currentOwner === ethers.constants.AddressZero
NeedsRegistration(currentOwner) == currentOwner = AddressZero

\* ensureAdminRegistered up to its first wait: the read of the admin's owner
\* and, for the zero address, the submission of changeOwner(admin, admin)
EnsureAdminRegistered(c) ==
    /\ call[c].pc = "ensure"
    /\ UNCHANGED <<owners, fresh, started, life, codecVars, walletVars, paymasterVars, deployVars>>
    /\ \/ Throw(c, call[c], "bootstrap", <<>>)          \* the read fails
       \/ LET currentOwner == AddressText(IdentityOwner(AdminHex)) IN
          IF NeedsRegistration(currentOwner)
          THEN \/ Throw(c, call[c], "bootstrap", <<>>)  \* the provider refuses the tx
               \/ Submit(c, call[c],
                         Tx("changeOwner", AdminHex, AdminHex, AdminHex, "bootstrap"),
                         "ensure_wait")
          ELSE call' = [call EXCEPT ![c].pc = "body"]

\* await tx.wait() of ensureAdminRegistered
EnsureMined(c) ==
    /\ call[c].pc = "ensure_wait"
    /\ UNCHANGED <<fresh, started, life, codecVars, walletVars, paymasterVars, deployVars>>
    /\ \/ /\ Accepts(Pending(c))
          /\ owners' = Applied(Pending(c))
          /\ call' = [call EXCEPT ![c] = [Settled(c, "mined") EXCEPT !.pc = "body"]]
       \/ /\ UNCHANGED owners                            \* reverted or dropped
          /\ Throw(c, Settled(c, "failed"), "bootstrap", <<>>)

(* registerDid *)

\* The result registerDid returns for the call c
RegisterResult(c, rec) ==
    [status |-> "ok", err |-> "none", hash |-> rec.receipt,
     did |-> DidOf(rec.key), address |-> AddressText(rec.key), detail |-> <<>>]

\* Faulty variant: lets the error of the attribute step escape to the outer catch
CatchAttrError_Rethrow(c, rec) == Throw(c, rec, "revert", <<>>)

\* catch (attrError) { }: the error is dropped and registerDid returns
CatchAttrError(c, rec) == Finish(c, rec, RegisterResult(c, rec))

\* Wallet.createRandom, the nonce read, the signature and the submission of
\* changeOwnerSigned(newWallet, v, r, s, admin)
RegisterDid_Submit(c) ==
    /\ call[c].pc = "body"
    /\ call[c].op = "registerDid"
    /\ UNCHANGED <<owners, started, life, codecVars, walletVars, paymasterVars, deployVars>>
    /\ \E k \in fresh :
         LET rec == [call[c] EXCEPT !.key = k] IN
         /\ fresh' = fresh \ {k}
         /\ \/ Throw(c, rec, "read", <<>>)     \* registry.nonce fails
            \/ Throw(c, rec, "send", <<>>)     \* the provider refuses the tx
            \/ Submit(c, rec, Tx("changeOwnerSigned", k, AdminHex, k, "primary"),
                      "reg_wait")

\* const receipt = await tx.wait()
RegisterDid_OwnerMined(c) ==
    /\ call[c].pc = "reg_wait"
    /\ UNCHANGED <<fresh, started, life, codecVars, walletVars, paymasterVars, deployVars>>
    /\ \/ /\ Accepts(Pending(c))
          /\ owners' = Applied(Pending(c))
          /\ call' = [call EXCEPT ![c] =
                        [Settled(c, "mined") EXCEPT !.pc = "reg_attr",
                                                    !.receipt = <<c, Len(call[c].txs)>>]]
       \/ /\ UNCHANGED owners
          /\ Throw(c, Settled(c, "failed"), "revert", <<>>)

\* Step 3: the public key is submitted as an attribute of the new identity
RegisterDid_AttachKey(c) ==
    /\ call[c].pc = "reg_attr"
    /\ UNCHANGED <<owners, fresh, started, life, codecVars, walletVars, paymasterVars, deployVars>>
    /\ \/ CatchAttrError(c, call[c])           \* the provider refuses the tx
       \/ Submit(c, call[c],
                 Tx("setAttribute", call[c].key, ZeroHex, AdminHex, "secondary"),
                 "reg_attr_wait")

\* await pubKeyTx.wait()
RegisterDid_AttrMined(c) ==
    /\ call[c].pc = "reg_attr_wait"
    /\ UNCHANGED <<owners, fresh, started, life, codecVars, walletVars, paymasterVars, deployVars>>
    /\ \/ /\ Accepts(Pending(c))
          /\ Finish(c, Settled(c, "mined"), RegisterResult(c, call[c]))
       \/ CatchAttrError(c, Settled(c, "failed"))

(* addAttribute *)

\* Faulty variant: compares the texts as they are
OwnerIsAdmin_CaseSensitive(currentOwner) == currentOwner = ToLowerCase(AdminAddress)

\* Faulty variant: takes an identity without owner for the admin's
OwnerIsAdmin_OrNobody(currentOwner) ==
    \/ ToLowerCase(currentOwner) = ToLowerCase(AdminAddress)
    \/ currentOwner = AddressZero

\* currentOwner.toLowerCase() !== this.adminWallet.address.toLowerCase()
OwnerIsAdmin(currentOwner) == ToLowerCase(currentOwner) = ToLowerCase(AdminAddress)

\* Faulty variant: allows 32 characters
NameTooLong_OffByOne(name) == name.len > MaxNameLength + 1

\* attributeName.length > 31
NameTooLong(name) == name.len > MaxNameLength

\* ethers formatBytes32String throws on more than 31 bytes
FitsBytes32(name) == name.bytes <= MaxBytes32String

\* addAttribute from the extraction of the identity to the submission of
\* setAttribute(identity, name, value, validity)
AddAttribute_Submit(c) ==
    /\ call[c].pc = "body"
    /\ call[c].op = "addAttribute"
    /\ UNCHANGED <<owners, fresh, started, life, codecVars, walletVars, paymasterVars, deployVars>>
    /\ LET ex == ExtractIdentity(call[c].did)
           rec == [call[c] EXCEPT !.identity = ex.identity] IN
       IF ~ex.ok
       THEN Throw(c, rec, ex.err, <<>>)
       ELSE \/ Throw(c, rec, "read", <<>>)    \* registry.identityOwner fails
            \/ LET currentOwner == AddressText(IdentityOwner(AddrBytes(ex.identity)))
                   rec2 == [rec EXCEPT !.currentOwner = currentOwner] IN
               IF ~OwnerIsAdmin(currentOwner)
               THEN Throw(c, rec2, "auth", <<AdminAddress, currentOwner>>)
               ELSE IF NameTooLong(call[c].name)
               THEN Throw(c, rec2, "nameTooLong", <<>>)
               ELSE IF ~FitsBytes32(call[c].name)
               THEN Throw(c, rec2, "bytes32", <<>>)
               ELSE \/ Throw(c, rec2, "send", <<>>)
                    \/ Submit(c, rec2,
                              Tx("setAttribute", AddrBytes(ex.identity), ZeroHex,
                                 AdminHex, "primary"),
                              "add_wait")

\* The end of a call whose only transaction is the one it waits for
PrimaryMined(c) ==
    /\ UNCHANGED <<fresh, started, life, codecVars, walletVars, paymasterVars, deployVars>>
    /\ \/ /\ Accepts(Pending(c))
          /\ owners' = Applied(Pending(c))
          /\ Finish(c, Settled(c, "mined"),
                    Success(c, Len(call[c].txs), call[c].did, NoText))
       \/ /\ UNCHANGED owners
          /\ Throw(c, Settled(c, "failed"), "revert", <<>>)

\* const receipt = await tx.wait() of addAttribute
AddAttribute_Mined(c) ==
    /\ call[c].pc = "add_wait"
    /\ PrimaryMined(c)

(* removeAttribute *)

\* Faulty variant: checks the owner first, as addAttribute does
RemoveAttribute_Submit_OwnerChecked(c) ==
    /\ call[c].pc = "body"
    /\ call[c].op = "removeAttribute"
    /\ UNCHANGED <<owners, fresh, started, life, codecVars, walletVars, paymasterVars, deployVars>>
    /\ LET ex == ExtractIdentity(call[c].did)
           rec == [call[c] EXCEPT !.identity = ex.identity] IN
       IF ~ex.ok
       THEN Throw(c, rec, ex.err, <<>>)
       ELSE LET currentOwner == AddressText(IdentityOwner(AddrBytes(ex.identity)))
                rec2 == [rec EXCEPT !.currentOwner = currentOwner] IN
            IF ~OwnerIsAdmin(currentOwner)
            THEN Throw(c, rec2, "auth", <<AdminAddress, currentOwner>>)
            ELSE IF ~FitsBytes32(call[c].name)
            THEN Throw(c, rec2, "bytes32", <<>>)
            ELSE \/ Throw(c, rec2, "send", <<>>)
                 \/ Submit(c, rec2,
                           Tx("revokeAttribute", AddrBytes(ex.identity), ZeroHex,
                              AdminHex, "primary"),
                           "remove_wait")

\* removeAttribute from the extraction of the identity to the submission of
\* revokeAttribute(identity, name, '')
RemoveAttribute_Submit(c) ==
    /\ call[c].pc = "body"
    /\ call[c].op = "removeAttribute"
    /\ UNCHANGED <<owners, fresh, started, life, codecVars, walletVars, paymasterVars, deployVars>>
    /\ LET ex == ExtractIdentity(call[c].did)
           rec == [call[c] EXCEPT !.identity = ex.identity] IN
       IF ~ex.ok
       THEN Throw(c, rec, ex.err, <<>>)
       ELSE IF ~FitsBytes32(call[c].name)
       THEN Throw(c, rec, "bytes32", <<>>)
       ELSE \/ Throw(c, rec, "send", <<>>)
            \/ Submit(c, rec,
                      Tx("revokeAttribute", AddrBytes(ex.identity), ZeroHex,
                         AdminHex, "primary"),
                      "remove_wait")

\* const receipt = await tx.wait() of removeAttribute
RemoveAttribute_Mined(c) ==
    /\ call[c].pc = "remove_wait"
    /\ PrimaryMined(c)

(* deleteDid *)

\* Faulty variant: hands the identity to the admin instead
DeleteDidOwner_Admin == AdminHex

\* ethers.constants.AddressZero as the new owner
DeleteDidOwner == ZeroHex

\* deleteDid from the extraction of the identity to the submission of
\* changeOwner(identity, AddressZero)
DeleteDid_Submit(c) ==
    /\ call[c].pc = "body"
    /\ call[c].op = "deleteDid"
    /\ UNCHANGED <<owners, fresh, started, life, codecVars, walletVars, paymasterVars, deployVars>>
    /\ LET ex == ExtractIdentity(call[c].did)
           rec == [call[c] EXCEPT !.identity = ex.identity] IN
       IF ~ex.ok
       THEN Throw(c, rec, ex.err, <<>>)
       ELSE \/ Throw(c, rec, "send", <<>>)
            \/ Submit(c, rec,
                      Tx("changeOwner", AddrBytes(ex.identity), DeleteDidOwner,
                         AdminHex, "primary"),
                      "delete_wait")

\* const receipt = await tx.wait() of deleteDid
DeleteDid_Mined(c) ==
    /\ call[c].pc = "delete_wait"
    /\ PrimaryMined(c)

\* What the response of the call c tells its caller about a generated
\* identity: registerDid returned it, or deleteDid on its DID succeeded
LifeAfter(c) ==
    LET identity == AddrBytes(call[c].identity) IN
    IF call[c].result.status # "ok" THEN life
    ELSE IF call[c].op = "registerDid"
    THEN [life EXCEPT ![call[c].key] = "registered"]
    ELSE IF call[c].op = "deleteDid" /\ identity \in NewKeys
    THEN [life EXCEPT ![identity] = "deleted"]
    ELSE life

\* The response is sent and the slot is free again
Return(c) ==
    /\ call[c].pc = "done"
    /\ call' = [call EXCEPT ![c] = IdleCall]
    /\ life' = LifeAfter(c)
    /\ UNCHANGED <<owners, fresh, started, codecVars, walletVars, paymasterVars, deployVars>>

----------------------------------------------------------------------------
(* SimpleAccountFactory and SimpleAccount *)

\* address(0)
NoAddress == "zero"

Users == {"alice", "bob"}

\* address(_entryPoint), fixed by the factory's constructor
EntryPoint == "entryPoint"

Senders == Users \cup {EntryPoint}

Salts == {0, 1}

\* Targets of the wallet's calls: one accepts every call, one reverts
Targets == {"sink", "reverter"}

\* Transactions sent in one run of the model
MaxWalletOps == 3

\* Wei an account may hold in the model
MaxBalance == 2

\* Faulty variant: leaves the owner out of the hashed creation code
GetAddress_SaltOnly(owner, salt) == <<NoAddress, salt>>

\* getAddress: Create2.computeAddress(salt, keccak256(creationCode ++
\* abi.encode(implementation, initialize(owner)))).  The hash is modelled as
\* the pair it is taken of: distinct (owner, salt) give distinct addresses.
GetAddress(owner, salt) == <<owner, salt>>

AccountAddrs == (Users \cup {NoAddress}) \X Salts

\* No code at the address
NoAccount == [deployed |-> FALSE, owner |-> NoAddress, nonce |-> 0, balance |-> 0,
              deposit |-> 0, validated |-> 0, accepted |-> 0]

NoTx == [fn |-> "none", sender |-> NoAddress, account |-> <<NoAddress, 0>>,
         args |-> <<>>, reason |-> "none", ret |-> <<>>, calls |-> <<>>]

\* How a transaction ended: reason "none" when it did not revert, ret what it
\* returned, calls the calls the account made in it
Ended(fn, sender, account, args, reason, ret, calls) ==
    [fn |-> fn, sender |-> sender, account |-> account, args |-> args,
     reason |-> reason, ret |-> ret, calls |-> calls]

WalletInit ==
    /\ accounts = [a \in AccountAddrs |-> NoAccount]
    /\ events = <<>>
    /\ last = NoTx
    /\ ops = 0

\* A reverted transaction changes nothing on chain
Reverts(fn, sender, account, args, reason) ==
    /\ last' = Ended(fn, sender, account, args, reason, <<>>, <<>>)
    /\ UNCHANGED <<accounts, events>>

\* SimpleAccount.initialize run by the proxy's constructor on fresh storage
Initialized(owner) == [NoAccount EXCEPT !.deployed = TRUE, !.owner = owner]

\* Faulty variant: deploys without looking for code at the address
AlreadyDeployed_Never(addr) == FALSE

\* addr.code.length > 0
AlreadyDeployed(addr) == accounts[addr].deployed

\* SimpleAccountFactory.createAccount
CreateAccount(sender, owner, salt) ==
    /\ ops < MaxWalletOps
    /\ ops' = ops + 1
    /\ UNCHANGED <<paymasterVars, deployVars, codecVars, didVars>>
    /\ LET addr == GetAddress(owner, salt) IN
       IF AlreadyDeployed(addr)
       THEN /\ last' = Ended("createAccount", sender, addr, <<owner, salt>>, "none", addr, <<>>)
            /\ UNCHANGED <<accounts, events>>
       ELSE /\ accounts' = [accounts EXCEPT ![addr] = Initialized(owner)]
            /\ events' = Append(events, [account |-> addr, owner |-> owner, salt |-> salt])
            /\ last' = Ended("createAccount", sender, addr, <<owner, salt>>, "none", addr, <<>>)

\* SimpleAccount.initialize called on a deployed account
Initialize(sender, a, anOwner) ==
    /\ ops < MaxWalletOps
    /\ accounts[a].deployed
    /\ ops' = ops + 1
    /\ UNCHANGED <<paymasterVars, deployVars, codecVars, didVars>>
    /\ IF accounts[a].owner # NoAddress
       THEN Reverts("initialize", sender, a, <<anOwner>>, "already initialized")
       ELSE /\ accounts' = [accounts EXCEPT ![a].owner = anOwner]
            /\ last' = Ended("initialize", sender, a, <<anOwner>>, "none", <<>>, <<>>)
            /\ UNCHANGED events

\* Faulty variant: lets any sender through
MayExecute_Anyone(sender, a) == TRUE

\* msg.sender == address(_entryPoint) || msg.sender == owner
MayExecute(sender, a) == sender = EntryPoint \/ sender = accounts[a].owner

\* _call: the target's call succeeds when the account holds the value and the
\* target does not revert
CallSucceeds(balance, target, value) == balance >= value /\ target # "reverter"

\* The balance left after the calls of todo (pairs <<target, value>>) made in
\* order, -1 when one of them fails
RECURSIVE BalanceAfter(_, _)
BalanceAfter(balance, todo) ==
    IF todo = <<>> THEN balance
    ELSE IF CallSucceeds(balance, Head(todo)[1], Head(todo)[2])
    THEN BalanceAfter(balance - Head(todo)[2], Tail(todo))
    ELSE -1

\* The calls of a transaction are made and it ends, or one fails and the
\* target's revert is passed on
MakeCalls(fn, sender, a, args, todo) ==
    LET left == BalanceAfter(accounts[a].balance, todo) IN
    IF left < 0
    THEN Reverts(fn, sender, a, args, "call failed")
    ELSE /\ accounts' = [accounts EXCEPT ![a].balance = left]
         /\ last' = Ended(fn, sender, a, args, "none", <<>>, todo)
         /\ UNCHANGED events

\* SimpleAccount.execute
Execute(sender, a, dest, value) ==
    /\ ops < MaxWalletOps
    /\ accounts[a].deployed
    /\ ops' = ops + 1
    /\ UNCHANGED <<paymasterVars, deployVars, codecVars, didVars>>
    /\ IF ~MayExecute(sender, a)
       THEN Reverts("execute", sender, a, <<dest, value>>, "not authorized")
       ELSE MakeCalls("execute", sender, a, <<dest, value>>, <<<<dest, value>>>>)

\* The arguments of executeBatch: dest, value, and the length of func
Batches ==
    { [dest |-> <<"sink">>, value |-> <<>>, nfunc |-> 1],
      [dest |-> <<"sink", "sink">>, value |-> <<1, 1>>, nfunc |-> 2],
      [dest |-> <<"sink", "reverter">>, value |-> <<1, 0>>, nfunc |-> 2],
      [dest |-> <<"sink">>, value |-> <<1, 1>>, nfunc |-> 1],
      [dest |-> <<"sink", "sink">>, value |-> <<>>, nfunc |-> 1] }

\* dest.length == func.length && (value.length == 0 || value.length == func.length)
ArrayLengthsOk(b) ==
    /\ Len(b.dest) = b.nfunc
    /\ (Len(b.value) = 0 \/ Len(b.value) = b.nfunc)

\* The calls executeBatch makes, in order
BatchCalls(b) ==
    [i \in 1..Len(b.dest) |-> <<b.dest[i], IF Len(b.value) = 0 THEN 0 ELSE b.value[i]>>]

\* SimpleAccount.executeBatch
ExecuteBatch(sender, a, b) ==
    /\ ops < MaxWalletOps
    /\ accounts[a].deployed
    /\ ops' = ops + 1
    /\ UNCHANGED <<paymasterVars, deployVars, codecVars, didVars>>
    /\ IF ~MayExecute(sender, a)
       THEN Reverts("executeBatch", sender, a, b, "not authorized")
       ELSE IF ~ArrayLengthsOk(b)
       THEN Reverts("executeBatch", sender, a, b, "wrong array lengths")
       ELSE MakeCalls("executeBatch", sender, a, b, BatchCalls(b))

SIG_VALIDATION_SUCCESS == 0

SIG_VALIDATION_FAILED == 1

\* Who signed a user operation; "malformed" is a signature ECDSA.recover
\* rejects
Signers == Users \cup {"malformed"}

\* _validateSignature, once the signer is recovered
ValidateSignature(a, recovered) ==
    IF accounts[a].owner # recovered THEN SIG_VALIDATION_FAILED
    ELSE SIG_VALIDATION_SUCCESS

\* Faulty variant: advances the nonce only for a valid signature
NonceAfter_OnlyIfSigned(nonce, validationData) ==
    IF validationData = SIG_VALIDATION_SUCCESS THEN nonce + 1 ELSE nonce

\* Faulty variant: the nonce is advanced twice
NonceAfter_Twice(nonce, validationData) == nonce + 2

\* _nonce++ of _validateNonce (validateUserOp has the validation data in
\* hand when it runs)
NonceAfter(nonce, validationData) == nonce + 1

\* Faulty variant: the modifier lets the owner through as well
OnlyEntryPoint_OrOwner(sender, a) ==
    sender = EntryPoint \/ sender = accounts[a].owner

\* modifier onlyEntryPoint of the account a: msg.sender == address(_entryPoint)
OnlyEntryPoint(sender, a) == sender = EntryPoint

\* SimpleAccount.validateUserOp with its modifier and its three steps
ValidateUserOp(sender, a, opNonce, signer, missingAccountFunds) ==
    /\ ops < MaxWalletOps
    /\ accounts[a].deployed
    /\ ops' = ops + 1
    /\ UNCHANGED <<paymasterVars, deployVars, codecVars, didVars>>
    /\ LET args == <<opNonce, signer, missingAccountFunds>> IN
       IF ~OnlyEntryPoint(sender, a)
       THEN Reverts("validateUserOp", sender, a, args, "not from EntryPoint")
       ELSE IF signer = "malformed"
       THEN Reverts("validateUserOp", sender, a, args, "ECDSA: invalid signature")
       ELSE IF opNonce # accounts[a].nonce
       THEN Reverts("validateUserOp", sender, a, args, "invalid nonce")
       ELSE IF missingAccountFunds # 0 /\ accounts[a].balance < missingAccountFunds
       THEN Reverts("validateUserOp", sender, a, args, "prefund failed")
       ELSE LET validationData == ValidateSignature(a, signer) IN
            /\ accounts' =
                 [accounts EXCEPT
                    ![a].nonce = NonceAfter(@, validationData),
                    ![a].balance = @ - missingAccountFunds,
                    ![a].validated = @ + 1,
                    ![a].accepted =
                        IF validationData = SIG_VALIDATION_SUCCESS THEN @ + 1 ELSE @]
            /\ last' = Ended("validateUserOp", sender, a, args, "none",
                             validationData, <<>>)
            /\ UNCHANGED events

\* receive(): plain ether sent to the account
Receive(sender, a, amount) ==
    /\ ops < MaxWalletOps
    /\ accounts[a].deployed
    /\ accounts[a].balance + amount <= MaxBalance
    /\ ops' = ops + 1
    /\ UNCHANGED <<paymasterVars, deployVars, codecVars, didVars, events>>
    /\ accounts' = [accounts EXCEPT ![a].balance = @ + amount]
    /\ last' = Ended("receive", sender, a, <<amount>>, "none", <<>>, <<>>)

\* addDeposit: msg.value goes on to the account's deposit at the EntryPoint
AddDeposit(sender, a, amount) ==
    /\ ops < MaxWalletOps
    /\ accounts[a].deployed
    /\ accounts[a].deposit + amount <= MaxBalance
    /\ ops' = ops + 1
    /\ UNCHANGED <<paymasterVars, deployVars, codecVars, didVars, events>>
    /\ accounts' = [accounts EXCEPT ![a].deposit = @ + amount]
    /\ last' = Ended("addDeposit", sender, a, <<amount>>, "none", <<>>, <<>>)

\* msg.sender == owner || msg.sender == address(this); the account itself
\* is not among the senders of transactions
OnlyOwner(sender, a) == sender = accounts[a].owner

\* withdrawDepositTo: the EntryPoint pays amount of the deposit out to
\* withdrawAddress, or reverts when the deposit is smaller
WithdrawDepositTo(sender, a, withdrawAddress, amount) ==
    /\ ops < MaxWalletOps
    /\ accounts[a].deployed
    /\ ops' = ops + 1
    /\ UNCHANGED <<paymasterVars, deployVars, codecVars, didVars>>
    /\ LET args == <<withdrawAddress, amount>> IN
       IF ~OnlyOwner(sender, a)
       THEN Reverts("withdrawDepositTo", sender, a, args, "only owner")
       ELSE IF amount > accounts[a].deposit
       THEN Reverts("withdrawDepositTo", sender, a, args, "Withdraw amount too large")
       ELSE /\ accounts' = [accounts EXCEPT ![a].deposit = @ - amount]
            /\ last' = Ended("withdrawDepositTo", sender, a, args, "none", <<>>, <<>>)
            /\ UNCHANGED events

----------------------------------------------------------------------------
(* VerifyingPaymaster *)

\* The paymaster's owner (the deployer) and another account
PaymasterOwner == "deployer"

PaymasterSenders == {PaymasterOwner, "mallory"}

\* Addresses whose keys sign approvals
PaymasterKeys == {"signerA", "signerB"}

\* Validations run in one run of the model
MaxValidations == 2

\* Latest block.timestamp
MaxTime == 1

\* Least length of paymasterAndData: 20 + 6 + 6 + 65 bytes
MinPaymasterData == 97

\* Length of an ECDSA signature ECDSA.recover accepts
SignatureLength == 65

\* Values of validUntil; validAfter is 0 throughout
ValidUntils == {0, 1}

\* The fields the approval hash covers: sender, nonce, initCode, callData and
\* the gas fields are one value (opFields), next to the validity window
HashedFields(userOp) == <<userOp.opFields, userOp.validUntil, userOp.validAfter>>

\* A signature: who made it (or "malformed" when ECDSA.recover rejects it)
\* and the fields it was made over
Signatures ==
    [by : PaymasterKeys \cup {"malformed"},
     over : {<<0, u, 0>> : u \in ValidUntils}]

\* User operations as the paymaster sees them: length is the length of
\* paymasterAndData; those of another length than 97 all carry one signature
PaymasterOps ==
    {userOp \in [opFields : {0}, validUntil : ValidUntils, validAfter : {0},
                 length : {MinPaymasterData - 1, MinPaymasterData, MinPaymasterData + 1},
                 signature : Signatures] :
        userOp.length # MinPaymasterData =>
            /\ userOp.validUntil = 0
            /\ userOp.signature = [by |-> "signerA", over |-> <<0, 0, 0>>]}

\* ECDSA.recover(ethSignedHash, signature): the signer when the signature is
\* over this hash, an address nobody holds when it is over something else
Recover(hash, signature) ==
    IF signature.over = hash THEN signature.by ELSE "nobody"

\* _packValidationData(sigFailed, validUntil, validAfter)
PackValidationData(sigFailed, validUntil, validAfter) ==
    [reverted |-> "none", sigFailed |-> sigFailed,
     validUntil |-> validUntil, validAfter |-> validAfter]

\* A validation that reverted
PaymasterReverted(reason) ==
    [reverted |-> reason, sigFailed |-> TRUE, validUntil |-> 0, validAfter |-> 0]

\* Faulty variant: every well-formed signature is accepted
SigFailed_Never(recovered) == FALSE

\* recovered != verifyingSigner
SigFailed(recovered) == recovered # verifyingSigner

\* _validatePaymasterUserOp
ValidatePaymasterResult(userOp) ==
    IF userOp.length < MinPaymasterData
    THEN PaymasterReverted("VerifyingPaymaster: invalid paymasterAndData length")
    ELSE IF \/ userOp.length - (MinPaymasterData - SignatureLength) # SignatureLength
            \/ userOp.signature.by = "malformed"
    THEN PaymasterReverted("ECDSA: invalid signature")
    ELSE PackValidationData(SigFailed(Recover(HashedFields(userOp), userOp.signature)),
                            userOp.validUntil, userOp.validAfter)

PaymasterInit ==
    /\ verifyingSigner \in PaymasterKeys
    /\ now = 0
    /\ verdicts = {}

PaymasterAtRest ==
    /\ verifyingSigner = "signerA"
    /\ now = 0
    /\ verdicts = {}

\* The EntryPoint has the paymaster validate userOp
ValidatePaymasterUserOp(userOp) ==
    /\ Cardinality(verdicts) < MaxValidations
    /\ verdicts' = verdicts \cup
         {[userOp |-> userOp, signer |-> verifyingSigner, time |-> now,
           validationData |-> ValidatePaymasterResult(userOp)]}
    /\ UNCHANGED <<verifyingSigner, now, codecVars, didVars, walletVars, deployVars>>

\* setVerifyingSigner, onlyOwner
SetVerifyingSigner(sender, newVerifyingSigner) ==
    /\ sender = PaymasterOwner
    /\ verifyingSigner' = newVerifyingSigner
    /\ UNCHANGED <<now, verdicts, codecVars, didVars, walletVars, deployVars>>

\* A block is mined: the other on-chain state moves on
NextBlock ==
    /\ now < MaxTime
    /\ now' = now + 1
    /\ UNCHANGED <<verifyingSigner, verdicts, codecVars, didVars, walletVars, deployVars>>

----------------------------------------------------------------------------
(* The deployment script: deployIfChanged and main *)

\* The contracts main deploys, in its order
ContractNames == <<"SimpleAccountFactory", "VerifyingPaymaster">>

Networks == {"sepolia", "localhost"}

\* Times the contracts are edited and recompiled in one run of the model
MaxEdits == 2

\* `${contractName}-${network.name}-${network.chainId}`
DeploymentKey(contractName, network) == <<contractName, network>>

DeploymentKeys == {DeploymentKey(ContractNames[i], n) : i \in 1..Len(ContractNames), n \in Networks}

\* No entry in deployments.json
NoRecord == [address |-> 0]

\* The script is not running
NoRun == [step |-> 0, network |-> "none", returned |-> <<>>, failed |-> FALSE]

DeployInit ==
    /\ deployments = [k \in DeploymentKeys |-> NoRecord]
    /\ artifacts = [i \in 1..Len(ContractNames) |-> 0]
    /\ deployed = <<>>
    /\ run = NoRun

DeployAtRest == DeployInit

\* A contract's source is edited and compiled again
EditContract(i) ==
    /\ artifacts[1] + artifacts[2] < MaxEdits
    /\ artifacts' = [artifacts EXCEPT ![i] = @ + 1]
    /\ UNCHANGED <<deployments, deployed, run, codecVars, didVars, walletVars, paymasterVars>>

\* npx hardhat run scripts/deploy-changed.ts --network <network>
StartMain(network) ==
    /\ run.step = 0
    /\ run' = [step |-> 1, network |-> network, returned |-> <<>>, failed |-> FALSE]
    /\ UNCHANGED <<deployments, artifacts, deployed, codecVars, didVars, walletVars, paymasterVars>>

\* if (!existingDeployment)
NeedsDeployment(existingDeployment) == existingDeployment = NoRecord

\* deployIfChanged for the contract main has reached: the address it returns,
\* or the deployment fails and main exits with the error
DeployIfChanged ==
    /\ run.step \in 1..Len(ContractNames)
    /\ LET contractName == ContractNames[run.step]
           key == DeploymentKey(contractName, run.network)
           existingDeployment == deployments[key]
           address == Len(deployed) + 1 IN
       IF NeedsDeployment(existingDeployment)
       THEN \/ /\ deployed' = Append(deployed,
                                     [contract |-> contractName, network |-> run.network,
                                      version |-> artifacts[run.step]])
               /\ deployments' = [deployments EXCEPT ![key] = [address |-> address]]
               /\ run' = [run EXCEPT !.step = @ + 1,
                                           !.returned = Append(@, address)]
            \/ /\ run' = [run EXCEPT !.step = Len(ContractNames) + 1,
                                           !.failed = TRUE]
               /\ UNCHANGED <<deployments, deployed>>
       ELSE /\ run' = [run EXCEPT !.step = @ + 1,
                                        !.returned = Append(@, existingDeployment.address)]
            /\ UNCHANGED <<deployments, deployed>>
    /\ UNCHANGED <<artifacts, codecVars, didVars, walletVars, paymasterVars>>

\* main has printed its summary (or the error) and the process exits
ExitMain ==
    /\ run.step = Len(ContractNames) + 1
    /\ run' = NoRun
    /\ UNCHANGED <<deployments, artifacts, deployed, codecVars, didVars, walletVars, paymasterVars>>

----------------------------------------------------------------------------
(* Codec specification: every bounded DID text is run through the
   extraction. *)

\* Longest text after the method prefix
MaxTail == 5

TailAlphabet == {"0", "x", "a", "A", "g", ":"}

RECURSIVE SeqsUpTo(_, _)
SeqsUpTo(S, n) ==
    IF n = 0 THEN {<<>>}
    ELSE LET shorter == SeqsUpTo(S, n - 1) IN
         shorter \cup {Append(s, ch) : s \in {t \in shorter : Len(t) = n - 1}, ch \in S}

CodecPrefixes ==
    { DidEthrPrefix,
      DidEthrPrefix \o <<"s", ":">>,
      <<"d", "i", "d", ":", "w", "e", "b", ":">>,
      <<"d", "i", "d", ":", "e", "t", "h", "r">>,
      <<>> }

CodecInputs == {p \o t : p \in CodecPrefixes, t \in SeqsUpTo(TailAlphabet, MaxTail)}

\* The values the variables of the other parts keep while one part runs
CodecAtRest == input = <<>> /\ outcome = NoOutcome

WalletAtRest ==
    /\ accounts = [a \in AccountAddrs |-> NoAccount]
    /\ events = <<>>
    /\ last = NoTx
    /\ ops = 0

DidAtRest ==
    /\ owners = [i \in RegIds |-> ZeroHex]
    /\ call = [c \in Calls |-> IdleCall]
    /\ fresh = NewKeys
    /\ started = 0
    /\ life = NoLife

CodecInit ==
    /\ input \in CodecInputs
    /\ outcome = NoOutcome
    /\ DidAtRest
    /\ WalletAtRest
    /\ PaymasterAtRest
    /\ DeployAtRest

\* the extraction block runs on the input
Extract ==
    /\ outcome = NoOutcome
    /\ outcome' = ExtractIdentity(input)
    /\ UNCHANGED <<input, didVars, walletVars, paymasterVars, deployVars>>

CodecNext == Extract

SpecCodec == CodecInit /\ [][CodecNext]_vars

----------------------------------------------------------------------------
(* Service specification *)

Init == DidInit /\ CodecAtRest /\ WalletAtRest /\ PaymasterAtRest /\ DeployAtRest

Next ==
    \E c \in Calls :
        \/ StartRegisterDid(c)
        \/ \E did \in DidInputs, name \in Names : StartAddAttribute(c, did, name)
        \/ \E did \in DidInputs, name \in RevokeNames : StartRemoveAttribute(c, did, name)
        \/ \E did \in DidInputs : StartDeleteDid(c, did)
        \/ EnsureAdminRegistered(c)
        \/ EnsureMined(c)
        \/ RegisterDid_Submit(c)
        \/ RegisterDid_OwnerMined(c)
        \/ RegisterDid_AttachKey(c)
        \/ RegisterDid_AttrMined(c)
        \/ AddAttribute_Submit(c)
        \/ AddAttribute_Mined(c)
        \/ RemoveAttribute_Submit(c)
        \/ RemoveAttribute_Mined(c)
        \/ DeleteDid_Submit(c)
        \/ DeleteDid_Mined(c)
        \/ Return(c)

Spec == Init /\ [][Next]_vars

----------------------------------------------------------------------------
(* Contract specification *)

ChainInit == WalletInit /\ CodecAtRest /\ DidAtRest /\ PaymasterAtRest /\ DeployAtRest

ChainNext ==
    \/ \E sender \in Senders, owner \in Users \cup {NoAddress}, salt \in Salts :
          CreateAccount(sender, owner, salt)
    \/ \E sender \in Senders, a \in AccountAddrs, anOwner \in Users :
          Initialize(sender, a, anOwner)
    \/ \E sender \in Senders, a \in AccountAddrs, dest \in Targets, value \in 0..1 :
          Execute(sender, a, dest, value)
    \/ \E sender \in Senders, a \in AccountAddrs, b \in Batches :
          ExecuteBatch(sender, a, b)
    \/ \E sender \in Senders, a \in AccountAddrs, n \in 0..MaxWalletOps,
          signer \in Signers, funds \in 0..1 :
          ValidateUserOp(sender, a, n, signer, funds)
    \/ \E sender \in Users, a \in AccountAddrs : Receive(sender, a, 1)
    \/ \E sender \in Users, a \in AccountAddrs : AddDeposit(sender, a, 1)
    \/ \E sender \in Senders, a \in AccountAddrs :
          WithdrawDepositTo(sender, a, "sink", 1)

SpecChain == ChainInit /\ [][ChainNext]_vars

----------------------------------------------------------------------------
(* Paymaster specification *)

PaymasterSpecInit ==
    PaymasterInit /\ CodecAtRest /\ DidAtRest /\ WalletAtRest /\ DeployAtRest

PaymasterNext ==
    \/ \E userOp \in PaymasterOps : ValidatePaymasterUserOp(userOp)
    \/ \E sender \in PaymasterSenders, s \in PaymasterKeys : SetVerifyingSigner(sender, s)
    \/ NextBlock

SpecPaymaster == PaymasterSpecInit /\ [][PaymasterNext]_vars

----------------------------------------------------------------------------
(* Deployment specification *)

DeploySpecInit ==
    DeployInit /\ CodecAtRest /\ DidAtRest /\ WalletAtRest /\ PaymasterAtRest

DeployNext ==
    \/ \E i \in 1..Len(ContractNames) : EditContract(i)
    \/ \E network \in Networks : StartMain(network)
    \/ DeployIfChanged
    \/ ExitMain

SpecDeploy == DeploySpecInit /\ [][DeployNext]_vars

----------------------------------------------------------------------------
(* Sequential specification: the service serves one request at a time *)

\* Requests served in one sequential run
MaxLifeOps == 4

\* A request arrives while no other is being served
Serve(op, did, name) ==
    /\ \A c \in Calls : call[c].pc = "idle"
    /\ started < MaxLifeOps
    /\ op = "registerDid" => fresh # {}
    /\ Admit(1, op, did, name)

LifeNext ==
    \/ Serve("registerDid", NoText, NoName)
    \/ \E did \in DidInputs, name \in Names : Serve("addAttribute", did, name)
    \/ \E did \in DidInputs, name \in RevokeNames : Serve("removeAttribute", did, name)
    \/ \E did \in DidInputs : Serve("deleteDid", did, NoName)
    \/ EnsureAdminRegistered(1)
    \/ EnsureMined(1)
    \/ RegisterDid_Submit(1)
    \/ RegisterDid_OwnerMined(1)
    \/ RegisterDid_AttachKey(1)
    \/ RegisterDid_AttrMined(1)
    \/ AddAttribute_Submit(1)
    \/ AddAttribute_Mined(1)
    \/ RemoveAttribute_Submit(1)
    \/ RemoveAttribute_Mined(1)
    \/ DeleteDid_Submit(1)
    \/ DeleteDid_Mined(1)
    \/ Return(1)

SpecLife == Init /\ [][LifeNext]_vars

----------------------------------------------------------------------------
(* Properties of the DID service *)

\* The calls of an operation that have ended
Ended_(op) == {c \in Calls : call[c].op = op /\ call[c].pc = "done"}

\* The positions of the transactions of kind among those call c submitted
TxsOfKind(c, kind) == {i \in 1..Len(call[c].txs) : call[c].txs[i].kind = kind}

\* Two address texts that denote the same address
SameAddress(t1, t2) == AddrBytes(t1) = AddrBytes(t2)

\* The call c read the owner of its identity
OwnerRead(c) == call[c].currentOwner # NoText

\* C1 (as stated): an addAttribute call on a well-formed DID that read the
\* identity's owner ends with the authorization error, naming the admin and
\* the owner and having submitted no setAttribute, when that owner is not the
\* admin, and ends with success and a transaction hash in every other case.
C1_AsStated ==
    \A c \in Ended_("addAttribute") :
        OwnerRead(c) =>
            IF ~SameAddress(call[c].currentOwner, AdminAddress)
            THEN /\ call[c].result.err = "auth"
                 /\ call[c].result.detail = <<AdminAddress, call[c].currentOwner>>
                 /\ TxsOfKind(c, "setAttribute") = {}
            ELSE /\ call[c].result.status = "ok"
                 /\ call[c].result.hash # NoHash

\* C1 (amended): the authorization error as stated; when the owner read is
\* the admin, the call succeeds exactly when the name has at most 31
\* characters and 31 bytes and its one setAttribute transaction was taken by
\* the provider and mined, and it then returns that transaction's hash;
\* otherwise it throws the name or the transaction error.
C1_AddAttributeOutcome ==
    \A c \in Ended_("addAttribute") :
        OwnerRead(c) =>
            IF ~SameAddress(call[c].currentOwner, AdminAddress)
            THEN /\ call[c].result.err = "auth"
                 /\ call[c].result.detail = <<AdminAddress, call[c].currentOwner>>
                 /\ TxsOfKind(c, "setAttribute") = {}
            ELSE LET sent == TxsOfKind(c, "setAttribute")
                     nameOk == call[c].name.len <= 31 /\ call[c].name.bytes <= 31 IN
                 /\ Cardinality(sent) <= 1
                 /\ sent # {} => nameOk
                 /\ call[c].result.status = "ok" <=>
                        /\ nameOk
                        /\ \E i \in sent : call[c].txs[i].status = "mined"
                 /\ call[c].result.status = "ok" =>
                        \E i \in sent : call[c].result.hash = <<c, i>>
                 /\ call[c].result.status # "ok" =>
                        call[c].result.err \in
                            IF nameOk THEN {"send", "revert"}
                            ELSE {"nameTooLong", "bytes32"}

\* C1 witness: a call refused because a third party owns the identity, next
\* to a call that succeeded
C1_Witness ==
    /\ \E c \in Ended_("addAttribute") :
           /\ call[c].result.err = "auth"
           /\ call[c].currentOwner = AddressText(UserHex)
    /\ \E c \in Ended_("addAttribute") : call[c].result.status = "ok"

\* C2 (as stated): an addAttribute call with a name of more than 31
\* characters submits no transaction at all and ends with an error.
C2_AsStated ==
    \A c \in Calls :
        (call[c].op = "addAttribute" /\ call[c].name.len > MaxNameLength) =>
            /\ call[c].txs = <<>>
            /\ call[c].pc = "done" => call[c].result.status = "error"

\* C2 (amended): such a call ends with an error raised no later than the
\* length check and submits no setAttribute; the one transaction it may have
\* submitted is changeOwner(admin, admin) of the bootstrap check.
C2_LongNameRejected ==
    \A c \in Calls :
        (call[c].op = "addAttribute" /\ call[c].name.len > MaxNameLength) =>
            /\ Len(call[c].txs) <= 1
            /\ \A i \in 1..Len(call[c].txs) :
                   /\ call[c].txs[i].kind = "changeOwner"
                   /\ call[c].txs[i].step = "bootstrap"
                   /\ call[c].txs[i].identity = AdminHex
                   /\ call[c].txs[i].newOwner = AdminHex
            /\ call[c].pc = "done" =>
                   /\ call[c].result.status = "error"
                   /\ call[c].result.err \in
                          {"bootstrap", "unsupported", "invalidAddress", "read",
                           "auth", "nameTooLong"}

\* C2 witness: a long name rejected by the length check after the bootstrap
\* check registered the admin
C2_Witness ==
    \E c \in Ended_("addAttribute") :
        /\ call[c].name.len > MaxNameLength
        /\ call[c].result.err = "nameTooLong"
        /\ Len(call[c].txs) = 1
        /\ call[c].txs[1].status = "mined"

\* The call c submits a transaction of its own (not the bootstrap's) in this
\* step
SubmitsWrite(c) ==
    /\ Len(call'[c].txs) = Len(call[c].txs) + 1
    /\ call'[c].txs[Len(call'[c].txs)].step # "bootstrap"

\* C4: when a call submits a write of its own the admin identity's registered
\* owner is the admin, and a repair the bootstrap check had to make is mined
\* by then.
C4_AdminSelfOwned ==
    [][\A c \in Calls :
          SubmitsWrite(c) =>
              /\ owners[AdminHex] = AdminHex
              /\ \A i \in 1..Len(call[c].txs) :
                     call[c].txs[i].step = "bootstrap" => call[c].txs[i].status = "mined"]_vars

\* The call c returns successfully in this step
Returns(c, op) ==
    /\ call[c].pc # "done"
    /\ call'[c].pc = "done"
    /\ call'[c].op = op
    /\ call'[c].result.status = "ok"

\* C5: when deleteDid returns, the identity's registered owner is the zero
\* address and the call has submitted exactly one changeOwner(identity, zero),
\* which is mined.
C5_DeleteZeroesOwner ==
    [][\A c \in Calls :
          Returns(c, "deleteDid") =>
              LET identity == AddrBytes(call'[c].identity)
                  zeroed == {i \in 1..Len(call'[c].txs) :
                               /\ call'[c].txs[i].kind = "changeOwner"
                               /\ call'[c].txs[i].identity = identity
                               /\ call'[c].txs[i].newOwner = ZeroHex} IN
              /\ owners'[identity] = ZeroHex
              /\ Cardinality(zeroed) = 1
              /\ \A i \in zeroed : call'[c].txs[i].status = "mined"
              /\ call'[c].result.hash \in {<<c, i>> : i \in zeroed}]_vars

\* C5 witness: deleteDid has returned for an identity the admin owned
C5_Witness ==
    \E c \in Ended_("deleteDid") :
        /\ call[c].result.status = "ok"
        /\ AddrBytes(call[c].identity) = UserHex
        /\ owners[UserHex] = ZeroHex

\* C6: once changeOwnerSigned is mined, registerDid does not throw, and it
\* returns the DID of the generated key's address with the hash of that
\* transaction, whatever happens to the setAttribute step.
C6_RegisterReturns ==
    \A c \in Calls :
        call[c].op = "registerDid" =>
            \A i \in TxsOfKind(c, "changeOwnerSigned") :
                call[c].txs[i].status = "mined" =>
                    /\ call[c].result.status # "error"
                    /\ call[c].pc = "done" =>
                           /\ call[c].result.status = "ok"
                           /\ call[c].result.address = AddressText(call[c].key)
                           /\ StartsWith(call[c].result.did, DidEthrPrefix)
                           /\ LastSegment(call[c].result.did) = call[c].result.address
                           /\ ExtractIdentity(call[c].result.did).identity
                                  = call[c].result.address
                           /\ call[c].result.hash = <<c, i>>

\* C6 witness: registerDid has returned although its setAttribute failed
C6_Witness ==
    \E c \in Ended_("registerDid") :
        /\ call[c].result.status = "ok"
        /\ \E i \in TxsOfKind(c, "setAttribute") : call[c].txs[i].status = "failed"

----------------------------------------------------------------------------
(* Properties of the DID codec *)

\* The text after the last ":" of the input
TrailingSegment ==
    CHOOSE seg \in {SubSeq(input, k + 1, Len(input)) : k \in 0..Len(input)} :
        /\ \A i \in 1..Len(seg) : seg[i] # ":"
        /\ Len(seg) < Len(input) => input[Len(input) - Len(seg)] = ":"

\* The input starts with "did:ethr:"
IsEthrDid ==
    /\ Len(input) >= 9
    /\ \A i \in 1..9 : input[i] = DidEthrPrefix[i]

\* C3 (as stated): a valid address in the last segment is returned as
\* written, a last segment that is not a valid address is rejected as an
\* invalid address, another prefix is rejected as an unsupported format.
C3_AsStated ==
    outcome # NoOutcome =>
        /\ (IsEthrDid /\ IsAddress(TrailingSegment)) =>
               outcome.ok /\ outcome.identity = TrailingSegment
        /\ (IsEthrDid /\ ~IsAddress(TrailingSegment)) =>
               ~outcome.ok /\ outcome.err = "invalidAddress"
        /\ ~IsEthrDid => ~outcome.ok /\ outcome.err = "unsupported"

\* C3 (amended): a valid address in the last segment is returned as written;
\* otherwise the last segment without its characters outside [a-fA-F0-9x] is
\* returned if that is a valid address and rejected as an invalid address if
\* not; another prefix is rejected as an unsupported format.
C3_Extraction ==
    outcome # NoOutcome =>
        /\ (IsEthrDid /\ IsAddress(TrailingSegment)) =>
               outcome.ok /\ outcome.identity = TrailingSegment
        /\ IsEthrDid =>
               LET kept == SelectSeq(TrailingSegment, KeptByStrip) IN
               IF IsAddress(kept)
               THEN outcome.ok /\ outcome.identity = kept
               ELSE ~outcome.ok /\ outcome.err = "invalidAddress"
        /\ ~IsEthrDid => ~outcome.ok /\ outcome.err = "unsupported"

\* C3 witness: a mixed-case address extracted from a segment that holds a
\* stray character
C3_Witness ==
    /\ outcome.ok
    /\ MixedCase(outcome.identity)
    /\ outcome.identity # TrailingSegment

----------------------------------------------------------------------------
(* Properties of the factory and the account *)

\* The step is a transaction calling fn
Calling(fn) == ops' = ops + 1 /\ last'.fn = fn

\* Indices of the AccountCreated events of createAccount(owner, salt)
CreatedBy(owner, salt) ==
    {i \in 1..Len(events) : events[i].owner = owner /\ events[i].salt = salt}

\* Indices of the AccountCreated events of a createAccount with this salt
CreatedWithSalt(salt) == {i \in 1..Len(events) : events[i].salt = salt}

\* The step deploys nothing and emits nothing
NoDeployment == accounts' = accounts /\ events' = events

\* C7: createAccount(owner, salt) returns getAddress(owner, salt) on every
\* call; a call that repeats the arguments of an earlier one returns the
\* address the earlier one created, deploys no proxy and emits no
\* AccountCreated event.
C7_CreateTwice ==
    [][\A owner \in Users \cup {NoAddress}, salt \in Salts :
          (Calling("createAccount") /\ last'.args = <<owner, salt>>) =>
              /\ last'.reason = "none"
              /\ last'.ret = GetAddress(owner, salt)
              /\ accounts'[last'.ret].deployed
              /\ \A i \in CreatedBy(owner, salt) :
                    /\ last'.ret = events[i].account
                    /\ NoDeployment
              /\ CreatedBy(owner, salt) = {} =>
                    events' = Append(events, [account |-> last'.ret,
                                              owner |-> owner, salt |-> salt])]_vars

\* C7 witness: the second of two createAccount calls with the same arguments
C7_Witness ==
    /\ ops = 2
    /\ last.fn = "createAccount"
    /\ Len(events) = 1
    /\ last.args = <<events[1].owner, events[1].salt>>
    /\ last.ret = events[1].account

\* C8 (as stated): once a salt is used, every later createAccount with that
\* salt, whatever its owner, returns the existing account and deploys nothing.
C8_AsStated ==
    [][\A owner \in Users \cup {NoAddress}, salt \in Salts :
          (Calling("createAccount") /\ last'.args = <<owner, salt>>) =>
              \A i \in CreatedWithSalt(salt) :
                  last'.ret = events[i].account /\ NoDeployment]_vars

\* C8 (amended): a later createAccount with the same owner and the same salt
\* returns the existing account and deploys nothing; with a used salt and an
\* owner not yet used with it, it deploys a new proxy, owned by that owner, at
\* an address no earlier account has.
C8_PerOwnerAndSalt ==
    [][\A owner \in Users \cup {NoAddress}, salt \in Salts :
          (Calling("createAccount") /\ last'.args = <<owner, salt>>) =>
              IF CreatedBy(owner, salt) # {}
              THEN \A i \in CreatedBy(owner, salt) :
                      last'.ret = events[i].account /\ NoDeployment
              ELSE /\ \A i \in 1..Len(events) : events[i].account # last'.ret
                   /\ ~accounts[last'.ret].deployed
                   /\ accounts'[last'.ret].deployed
                   /\ accounts'[last'.ret].owner = owner
                   /\ events' = Append(events, [account |-> last'.ret,
                                                owner |-> owner, salt |-> salt])]_vars

\* C8 witness: two accounts created with one salt for two owners
C8_Witness ==
    /\ Len(events) = 2
    /\ events[1].salt = events[2].salt
    /\ events[1].owner # events[2].owner
    /\ events[1].account # events[2].account
    /\ accounts[events[1].account].deployed
    /\ accounts[events[2].account].deployed

\* The step is a transaction calling execute or executeBatch
CallingExecute == Calling("execute") \/ Calling("executeBatch")

\* The sender of the transaction is the account's owner or the EntryPoint
FromOwnerOrEntryPoint ==
    last'.sender = EntryPoint \/ last'.sender = accounts[last'.account].owner

\* The calls the transaction asks for, in order, as pairs <<target, value>>
RequestedCalls ==
    IF last'.fn = "execute" THEN <<last'.args>>
    ELSE [i \in 1..Len(last'.args.dest) |->
            <<last'.args.dest[i],
              IF last'.args.value = <<>> THEN 0 ELSE last'.args.value[i]>>]

\* The transaction reverted with this reason and left the accounts as they were
RevertedWith(reason) == last'.reason = reason /\ accounts' = accounts

\* C9 (as stated): execute and executeBatch from a sender that is neither the
\* owner nor the EntryPoint revert with "not authorized", make no call and
\* move no balance; from the owner or the EntryPoint they make the requested
\* calls (a call that fails takes the transaction down with it).
C9_AsStated ==
    [][CallingExecute =>
          IF FromOwnerOrEntryPoint
          THEN \/ last'.reason = "none" /\ last'.calls = RequestedCalls
               \/ last'.reason = "call failed"
          ELSE RevertedWith("not authorized") /\ last'.calls = <<>>]_vars

\* C9 (amended): execute and executeBatch from a sender that is neither the
\* owner nor the EntryPoint revert with "not authorized", make no call and
\* move no balance; from the owner or the EntryPoint they pass the gate, and
\* then make all the requested calls in order, unless the arrays of
\* executeBatch have inconsistent lengths ("wrong array lengths") or one of
\* the calls fails, in which case the transaction reverts and nothing changes.
C9_ExecuteGate ==
    [][CallingExecute =>
          IF ~FromOwnerOrEntryPoint
          THEN RevertedWith("not authorized") /\ last'.calls = <<>>
          ELSE IF last'.fn = "executeBatch" /\ ~ArrayLengthsOk(last'.args)
          THEN RevertedWith("wrong array lengths") /\ last'.calls = <<>>
          ELSE IF BalanceAfter(accounts[last'.account].balance, RequestedCalls) < 0
          THEN RevertedWith("call failed") /\ last'.calls = <<>>
          ELSE /\ last'.reason = "none"
               /\ last'.calls = RequestedCalls
               /\ accounts'[last'.account].balance =
                     BalanceAfter(accounts[last'.account].balance, RequestedCalls)]_vars

\* C9 witness: an executeBatch from a stranger refused on a funded account
C9_Witness ==
    /\ last.fn = "executeBatch"
    /\ last.sender \notin {EntryPoint, accounts[last.account].owner}
    /\ last.reason = "not authorized"
    /\ last.calls = <<>>
    /\ accounts[last.account].balance > 0
    /\ ArrayLengthsOk(last.args)

\* The nonce userOp.nonce of the validateUserOp transaction of the step
OpNonce == last'.args[1]

\* C10 (as stated): a fresh account has nonce 0; validateUserOp reverts with
\* "invalid nonce" and leaves the nonce alone when userOp.nonce is not the
\* account's nonce; the nonce is the number of operations accepted with a
\* valid owner signature and a matching nonce.
C10_AsStated ==
    [][/\ \A a \in AccountAddrs :
             ~accounts[a].deployed /\ accounts'[a].deployed => accounts'[a].nonce = 0
       /\ (Calling("validateUserOp") /\ OpNonce # accounts[last'.account].nonce) =>
             RevertedWith("invalid nonce")
       /\ \A a \in AccountAddrs : accounts'[a].nonce = accounts'[a].accepted]_vars

\* C10 (amended): a fresh account has nonce 0; a validateUserOp whose
\* userOp.nonce is not the account's nonce reverts and leaves the nonce alone,
\* with "invalid nonce" when the EntryPoint sent it and its signature is well
\* formed; the nonce advances by exactly one per validateUserOp that does not
\* revert, whether its signature is the owner's (it returns 0) or not (it
\* returns 1), and by nothing else: the nonce is the number of validations
\* that did not revert, which is at least the number of accepted operations.
C10_NonceProtocol ==
    [][/\ \A a \in AccountAddrs :
             ~accounts[a].deployed /\ accounts'[a].deployed => accounts'[a].nonce = 0
       /\ (Calling("validateUserOp") /\ OpNonce # accounts[last'.account].nonce) =>
             /\ accounts' = accounts
             /\ last'.reason # "none"
             /\ (last'.sender = EntryPoint /\ last'.args[2] # "malformed") =>
                    last'.reason = "invalid nonce"
       /\ Calling("validateUserOp") =>
             /\ last'.reason = "none" =>
                   /\ accounts'[last'.account].nonce = accounts[last'.account].nonce + 1
                   /\ last'.ret \in {SIG_VALIDATION_SUCCESS, SIG_VALIDATION_FAILED}
                   /\ last'.ret = SIG_VALIDATION_SUCCESS <=>
                         last'.args[2] = accounts[last'.account].owner
             /\ last'.reason # "none" => accounts' = accounts
       /\ ~Calling("validateUserOp") =>
             \A a \in AccountAddrs :
                 accounts[a].deployed => accounts'[a].nonce = accounts[a].nonce
       /\ \A a \in AccountAddrs :
             /\ accounts'[a].nonce = accounts'[a].validated
             /\ accounts'[a].accepted <= accounts'[a].nonce]_vars

\* C10 witness: the second validation of an account, which did not revert and
\* reported a signature that is not the owner's
C10_Witness ==
    /\ last.fn = "validateUserOp"
    /\ last.reason = "none"
    /\ last.ret = SIG_VALIDATION_FAILED
    /\ accounts[last.account].nonce = 2
    /\ accounts[last.account].accepted = 1

\* C11: validateUserOp from any sender other than the EntryPoint, the owner
\* included, reverts with "not from EntryPoint" and leaves every account, its
\* nonce and its balance, as it was.
C11_OnlyFromEntryPoint ==
    [][(Calling("validateUserOp") /\ last'.sender # EntryPoint) =>
          /\ last'.reason = "not from EntryPoint"
          /\ accounts'[last'.account].nonce = accounts[last'.account].nonce
          /\ accounts'[last'.account].balance = accounts[last'.account].balance
          /\ accounts' = accounts]_vars

\* C11 witness: the owner's own validateUserOp, with the account's nonce and
\* the owner's signature, on a funded account, refused
C11_Witness ==
    /\ last.fn = "validateUserOp"
    /\ last.sender = accounts[last.account].owner
    /\ last.args[1] = accounts[last.account].nonce
    /\ last.args[2] = accounts[last.account].owner
    /\ last.args[3] = 1
    /\ accounts[last.account].balance = 1
    /\ last.reason = "not from EntryPoint"

\* The functions of the account other than validateUserOp
OtherAccountFunctions ==
    {"execute", "executeBatch", "initialize", "addDeposit", "withdrawDepositTo",
     "receive"}

\* C19: an account's nonce never decreases; a step changes it only for the
\* account of a validateUserOp sent by the EntryPoint; every such call that
\* does not revert adds exactly one, also when it returns
\* SIG_VALIDATION_FAILED; execute, executeBatch, initialize, addDeposit,
\* withdrawDepositTo and the receipt of ether leave every nonce alone.
C19_NonceFrame ==
    [][/\ \A a \in AccountAddrs :
             /\ accounts'[a].nonce >= accounts[a].nonce
             /\ accounts'[a].nonce # accounts[a].nonce =>
                    /\ Calling("validateUserOp")
                    /\ last'.account = a
                    /\ last'.sender = EntryPoint
       /\ (Calling("validateUserOp") /\ last'.sender = EntryPoint
             /\ last'.reason = "none") =>
             accounts'[last'.account].nonce = accounts[last'.account].nonce + 1
       /\ (\E fn \in OtherAccountFunctions : Calling(fn)) =>
             \A a \in AccountAddrs : accounts'[a].nonce = accounts[a].nonce]_vars

\* C19 witness: a nonce of 1 reached by a validation that returned
\* SIG_VALIDATION_FAILED, untouched by a later execute that made its call
C19_Witness ==
    /\ last.fn = "execute"
    /\ last.reason = "none"
    /\ accounts[last.account].nonce = 1
    /\ accounts[last.account].accepted = 0

\* C20: an account created by createAccount(owner, salt) has that owner from
\* then on, whatever is called by whom, and every initialize on it reverts
\* with "already initialized".
C20_OwnerFixed ==
    [][/\ \A i \in 1..Len(events') :
             accounts'[events'[i].account].owner = events'[i].owner
       /\ \A a \in AccountAddrs :
             accounts[a].deployed => accounts'[a].owner = accounts[a].owner
       /\ Calling("initialize") => RevertedWith("already initialized")]_vars

----------------------------------------------------------------------------
(* Properties of the paymaster *)

\* Two validations of one user operation under one verifyingSigner
SameRun(v, w) == v.userOp = w.userOp /\ v.signer = w.signer

\* The signature of the run v is the signer's, over the hashed fields
SignerMatch(v) == Recover(HashedFields(v.userOp), v.userOp.signature) = v.signer

\* The run v did not revert and reports the window of its user operation
ReportsWindow(v) ==
    /\ v.validationData.reverted = "none"
    /\ v.validationData.validUntil = v.userOp.validUntil
    /\ v.validationData.validAfter = v.userOp.validAfter

\* C12 (as stated): two validations of the same user operation under the
\* same verifyingSigner give the same result whatever else has changed on
\* chain; a validation accepts exactly when the signature over the hashed
\* fields is the signer's, and otherwise reports a signature failure with the
\* same window and does not revert.
C12_AsStated ==
    /\ \A v, w \in verdicts : SameRun(v, w) => v.validationData = w.validationData
    /\ \A v \in verdicts :
          /\ ReportsWindow(v)
          /\ v.validationData.sigFailed <=>
                ~(v.userOp.signature.by # "malformed" /\ SignerMatch(v))

\* C12 (amended): two validations of the same user operation under the same
\* verifyingSigner give the same result whatever else has changed on chain; a
\* validation reverts when paymasterAndData is shorter than 97 bytes or the
\* signature is not one ECDSA.recover accepts (not 65 bytes long, or
\* malformed); otherwise it does not revert, reports the window of the user
\* operation, and accepts exactly when the signature is the signer's.
C12_SignerMatchOnly ==
    /\ \A v, w \in verdicts : SameRun(v, w) => v.validationData = w.validationData
    /\ \A v \in verdicts :
          IF v.userOp.length < 97
          THEN v.validationData.reverted =
                  "VerifyingPaymaster: invalid paymasterAndData length"
          ELSE IF v.userOp.length - 32 # 65 \/ v.userOp.signature.by = "malformed"
          THEN v.validationData.reverted = "ECDSA: invalid signature"
          ELSE /\ ReportsWindow(v)
               /\ v.validationData.sigFailed <=> ~SignerMatch(v)

\* C12 witness: one user operation accepted in two different blocks, and
\* rejected by neither
C12_Witness ==
    \E v, w \in verdicts :
        /\ SameRun(v, w)
        /\ v.time # w.time
        /\ ReportsWindow(v)
        /\ ~v.validationData.sigFailed
        /\ v.userOp.validUntil = 0

----------------------------------------------------------------------------
(* Properties of the deployment script *)

\* The step is a deployIfChanged of the contract the run has reached
ChecksContract == run.step \in 1..Len(ContractNames) /\ run'.step # run.step

\* The entry of deployments.json for the contract the run has reached
RecordReached == deployments[DeploymentKey(ContractNames[run.step], run.network)]

\* The contract the run has reached was compiled from another version than
\* the one its record's address holds
ChangedSinceRecorded == deployed[RecordReached.address].version # artifacts[run.step]

\* C14: a deployIfChanged that finds a record redeploys the contract and
\* replaces the record when the contract has changed since the recorded
\* deployment, and otherwise sends no deployment and returns the recorded
\* address.
C14_SmartDeployment ==
    [][(ChecksContract /\ RecordReached # NoRecord) =>
          IF ChangedSinceRecorded
          THEN /\ Len(deployed') = Len(deployed) + 1
               /\ deployed'[Len(deployed')].version = artifacts[run.step]
               /\ deployments'[DeploymentKey(ContractNames[run.step], run.network)]
                     = [address |-> Len(deployed')]
          ELSE /\ deployed' = deployed
               /\ deployments' = deployments
               /\ run'.returned = Append(run.returned, RecordReached.address)]_vars

----------------------------------------------------------------------------
(* Properties of the order of steps within a call of the service *)

\* Where a call stands while it awaits tx.wait()
WaitingForTx ==
    {"ensure_wait", "reg_wait", "reg_attr_wait", "add_wait", "remove_wait", "delete_wait"}

\* The positions in the transactions of call c that are still in flight
InFlight(c) == {i \in 1..Len(call[c].txs) : call[c].txs[i].status = "pending"}

\* C13: in every call of a mutating operation, no transaction of the operation
\* itself is submitted before the bootstrap check is over, every transaction
\* but the last is mined, only the last can be in flight and only while the
\* call awaits it, and the call has returned or thrown only with none in flight.
C13_OneInFlight ==
    \A c \in Calls :
        LET txs == call[c].txs IN
        /\ call[c].pc = "ensure" => txs = <<>>
        /\ call[c].pc = "ensure_wait" => Len(txs) = 1 /\ txs[1].step = "bootstrap"
        /\ \A i \in 1..Len(txs) : txs[i].step = "bootstrap" => i = 1
        /\ \A i \in 1..(Len(txs) - 1) : txs[i].status = "mined"
        /\ InFlight(c) \subseteq {Len(txs)}
        /\ Cardinality(InFlight(c)) <= 1
        /\ InFlight(c) # {} <=> call[c].pc \in WaitingForTx
        /\ call[c].pc = "done" => InFlight(c) = {}

\* A registration that went through the bootstrap transaction, the
\* assignment of the owner and the attribute, one after the other
C13_Witness ==
    \E c \in Ended_("registerDid") :
        /\ Len(call[c].txs) = 3
        /\ call[c].txs[1].step = "bootstrap"
        /\ \A i \in 1..3 : call[c].txs[i].status = "mined"
        /\ call[c].result.status = "ok"

----------------------------------------------------------------------------
(* Properties of failures *)

\* The transaction the call c awaits fails or reverts in this step
TxFails(c) ==
    /\ InFlight(c) # {}
    /\ Len(call'[c].txs) >= Len(call[c].txs)
    /\ call'[c].txs[Len(call[c].txs)].status = "failed"

\* The call c ends in this step by throwing
Throws(c) ==
    /\ call[c].pc \notin {"idle", "done"}
    /\ call'[c].pc = "done"
    /\ call'[c].result.status = "error"

\* The step is part of the bootstrap check of the call c
InBootstrap(c) == call[c].pc \in {"ensure", "ensure_wait"}

\* The same call to the registry by the same signer
SameTx(t1, t2) ==
    /\ t1.kind = t2.kind
    /\ t1.identity = t2.identity
    /\ t1.newOwner = t2.newOwner
    /\ t1.signer = t2.signer

\* No retry in the step: a transaction that fails outside the attribute step
\* of registerDid ends the call with an error, a call that has ended
\* submits nothing more, nothing is submitted after a transaction that was
\* not mined, and no transaction of a call is submitted twice
NoRetry(c) ==
    /\ (TxFails(c) /\ call[c].pc # "reg_attr_wait") => Throws(c)
    /\ call[c].pc = "done" => call'[c] \in {call[c], IdleCall}
    /\ Len(call'[c].txs) > Len(call[c].txs) =>
          /\ Len(call'[c].txs) = Len(call[c].txs) + 1
          /\ \A i \in 1..Len(call[c].txs) :
                /\ call'[c].txs[i] = call[c].txs[i]
                /\ call[c].txs[i].status = "mined"
                /\ ~SameTx(call[c].txs[i], call'[c].txs[Len(call'[c].txs)])
    /\ Throws(c) => call'[c].txs \in {call[c].txs, Settled(c, "failed").txs}

\* C15 as stated: failures are terminal with no retry, and every call that
\* ends by throwing, a failure of the bootstrap check included, throws an
\* error that wraps the cause.
C15_AsStated ==
    [][\A c \in Calls :
          /\ NoRetry(c)
          /\ Throws(c) => Wrapped(call'[c].result)]_vars

\* C15: failures are terminal with no retry; the error thrown wraps the cause
\* exactly when the failure happened after the bootstrap check, and a failure
\* of the bootstrap check leaves the method as the provider's own error.
C15_FailuresTerminal ==
    [][\A c \in Calls :
          /\ NoRetry(c)
          /\ Throws(c) => (Wrapped(call'[c].result) <=> ~InBootstrap(c))]_vars

\* One call ended on a reverted transaction of its own, the other on a
\* reverted bootstrap transaction
C15_Witness ==
    \E c, d \in Calls :
        /\ call[c].pc = "done" /\ call[d].pc = "done"
        /\ call[c].txs # <<>> /\ call[d].txs # <<>>
        /\ Pending(c).status = "failed" /\ Pending(c).step = "primary"
        /\ Wrapped(call[c].result)
        /\ Pending(d).status = "failed" /\ Pending(d).step = "bootstrap"
        /\ call[d].result.status = "error" /\ ~Wrapped(call[d].result)

----------------------------------------------------------------------------
(* Properties of removeAttribute *)

\* The calls of removeAttribute that have ended, on a DID whose identity the
\* extraction accepts, without a failure of the bootstrap check or a refusal
\* of the provider
Removals ==
    {c \in Ended_("removeAttribute") :
        /\ ExtractIdentity(call[c].did).ok
        /\ call[c].result.err \notin {"bootstrap", "send"}}

\* The call c submitted one revokeAttribute for the identity of its DID,
\* signed by the admin, and nothing tells it the owner
OneRevoke(c) ==
    /\ Cardinality(TxsOfKind(c, "revokeAttribute")) = 1
    /\ Pending(c).kind = "revokeAttribute"
    /\ Pending(c).identity = AddrBytes(ExtractIdentity(call[c].did).identity)
    /\ Pending(c).signer = AdminHex
    /\ ~OwnerRead(c)

----------------------------------------------------------------------------
(* Properties of the life of an identity, one request after the other *)

\* The step in which addAttribute, called on the DID registerDid returned
\* for the key k, reads the owner and acts on it
AddsAfterOwnerRead(k) ==
    /\ call[1].pc = "body"
    /\ call[1].op = "addAttribute"
    /\ call[1].did = DidOf(k)
    /\ OwnerRead(1)'

\* The step in which the response of a successful registerDid is sent
RegistrationReturns ==
    /\ call[1].pc = "done"
    /\ call[1].op = "registerDid"
    /\ call[1].result.status = "ok"
    /\ call'[1] = IdleCall

\* C17: when registerDid returns its result the registry's owner of the new
\* identity is the admin; an addAttribute on the returned DID that follows
\* reads the admin as owner, does not fail with the authorization error and,
\* for a name of at most 31 characters and bytes, goes on to the submission
\* of setAttribute; once deleteDid on that DID has succeeded the owner stays
\* the zero address and every addAttribute on it throws the authorization
\* error without any transaction of its own.
C17_Lifecycle ==
    [][/\ RegistrationReturns =>
             /\ owners[call[1].key] = AdminHex
             /\ call[1].result.did = DidOf(call[1].key)
       /\ \A k \in NewKeys :
             /\ life[k] = "deleted" => owners[k] = ZeroHex /\ owners'[k] = ZeroHex
             /\ AddsAfterOwnerRead(k) =>
                   /\ life[k] = "registered" =>
                         /\ call'[1].currentOwner = AdminAddress
                         /\ call'[1].result.err # "auth"
                         /\ (~NameTooLong(call[1].name) /\ FitsBytes32(call[1].name)) =>
                               \/ call'[1].result.err = "send"
                               \/ /\ call'[1].pc = "add_wait"
                                  /\ Pending(1)'.kind = "setAttribute"
                                  /\ Pending(1)'.identity = k
                   /\ life[k] = "deleted" =>
                         /\ call'[1].pc = "done"
                         /\ call'[1].result.err = "auth"
                         /\ call'[1].txs = call[1].txs]_vars

\* After registerDid and a successful deleteDid on the DID it returned, an
\* addAttribute on that DID has ended with the authorization error
C17_Witness ==
    \E k \in NewKeys :
        /\ life[k] = "deleted"
        /\ call[1].pc = "done"
        /\ call[1].op = "addAttribute"
        /\ call[1].did = DidOf(k)
        /\ call[1].result.err = "auth"

----------------------------------------------------------------------------
(* Properties of calls that interleave *)

\* The setAttribute that the addAttribute call c awaits takes effect in
\* this step
AttributeApplied(c) ==
    /\ call[c].op = "addAttribute"
    /\ call[c].pc = "add_wait"
    /\ call'[c].txs[Len(call[c].txs)].status = "mined"

\* The admin is the registered owner of the identity: by the owner map, or,
\* for the admin's own identity, as an identity without an entry
AdminOwns(identity) ==
    \/ owners[identity] = AdminHex
    \/ identity = AdminHex /\ owners[identity] = ZeroHex

====
